---- MODULE Spec2Model ----
(***************************************************************************)
(* Server-side HTML document assembly of integrations/utils/src/lib.rs:    *)
(* autoreload, html_parts, html_parts_separated and build_async_response,  *)
(* together with the message handler of the live-reload script that        *)
(* autoreload emits.                                                       *)
(*                                                                         *)
(* A Rust String is a sequence of text pieces (each piece a TLA+ string),  *)
(* format!/push_str are sequence concatenation.  An Option or Result is a  *)
(* sequence of length 0 (None / Err) or 1 (Some(v) / Ok(v)).               *)
(***************************************************************************)
EXTENDS Integers, Sequences, FiniteSets, TLC

VARIABLES
    options,          \* the LeptosOptions handed to every call
    env,              \* the process environment (std::env::var)
    build_env,        \* LEPTOS_OUTPUT_NAME as seen by option_env! at compile time
    meta,             \* the MetaContext registered in the scope, if any
    r_autoreload,     \* result of the last autoreload call, if any
    r_html_parts,     \* result of the last html_parts call, if any
    r_separated,      \* result of the last html_parts_separated call, if any
    pc,               \* position of build_async_response
    pending,          \* fragments the rendering engine has yet to produce
    ready,            \* fragments produced and not yet taken by stream.next()
    closed,           \* the stream has no more fragments to produce
    arrived,          \* every fragment produced so far, in arrival order
    buf,              \* build_async_response: buf
    shell,            \* build_async_response: (head, tail), once built
    meta2,            \* build_async_response: meta (the second use_context)
    head_meta,        \* build_async_response: head_meta
    body_meta,        \* build_async_response: body_meta
    disposals,        \* number of times runtime.dispose() has run
    log,              \* calls made on the stream end, the MetaContext and the runtime
    doc,              \* the String returned by build_async_response, if any
    links,            \* browser: href of every <link> element of the page
    inbox,            \* browser: number of messages handled so far
    msg,              \* browser: the message handled last, if any
    effects           \* browser: what the handler did for that message

shell_vars  == <<r_autoreload, r_html_parts, r_separated>>
asm_vars    == <<pc, pending, ready, closed, arrived, buf, shell, meta2,
                 head_meta, body_meta, disposals, log, doc>>
js_vars     == <<links, inbox, msg, effects>>
in_vars     == <<options, env, build_env>>
vars        == <<in_vars, meta, shell_vars, asm_vars, js_vars>>

----------------------------------------------------------------------------
(* Option / Result and string helpers                                      *)

NoneV == <<>>
Some(v) == <<v>>
is_some(o) == Len(o) = 1
is_ok(r) == Len(r) = 1
is_err(r) == Len(r) = 0
unwrap_or(o, d) == IF is_some(o) THEN o[1] ELSE d
unwrap_or_default(o) == unwrap_or(o, <<>>)

Range(s) == {s[i] : i \in 1..Len(s)}

\* index of the first occurrence of piece t in s at or after position from, 0 if none
IndexFrom(s, t, from) ==
    IF \E i \in from..Len(s) : s[i] = t
    THEN CHOOSE i \in from..Len(s) : s[i] = t /\ \A j \in from..(i - 1) : s[j] # t
    ELSE 0

IndexOf(s, t) == IndexFrom(s, t, 1)

\* the text between the first piece a and the first piece b that follows it
Between(s, a, b) ==
    LET i == IndexOf(s, a)
        j == IF i = 0 THEN 0 ELSE IndexFrom(s, b, i + 1)
    IN  IF i = 0 \/ j = 0 THEN <<"?">> ELSE SubSeq(s, i + 1, j - 1)

\* sub occurs in s as a contiguous run starting at position i
OccursAt(s, sub, i) ==
    /\ i >= 1
    /\ i + Len(sub) - 1 <= Len(s)
    /\ SubSeq(s, i, i + Len(sub) - 1) = sub

DigitChar == <<"0", "1", "2", "3", "4", "5", "6", "7", "8", "9">>

RECURSIVE to_string(_)
\* u32::to_string: the decimal digits of n
to_string(n) ==
    IF n < 10 THEN <<DigitChar[n + 1]>>
    ELSE to_string(n \div 10) \o <<DigitChar[(n % 10) + 1]>>

RECURSIVE ip_to_string(_)
\* IpAddr::to_string for an IPv4 address given by its octets
ip_to_string(octets) ==
    IF Len(octets) = 1 THEN to_string(octets[1])
    ELSE to_string(octets[1]) \o <<".">> \o ip_to_string(Tail(octets))

\* std::env::var(name)
env_var(name) == env[name]

----------------------------------------------------------------------------
(* autoreload                                                              *)

WS == "\n"
HOT_RELOAD_JS == "leptos_hot_reload::HOT_RELOAD_JS"
SCRIPT_OPEN == "<script crossorigin=\"\">(function () {"
WS_OPEN == "var ws = new WebSocket('"
WS_CLOSE == "');"
ON_MESSAGE == "ws.onmessage = (ev) => {...};"
ON_CLOSE == "ws.onclose = () => console.warn('Live-reload stopped. Manual reload necessary.');"
SCRIPT_CLOSE == "})()"
SCRIPT_END == "</script>"

\* faulty variant: the host is looked up under the port's variable
site_ip_swapped(opts) ==
    unwrap_or(env_var("LEPTOS_SITE_EXTERNAL_PORT"), ip_to_string(opts.site_addr.ip))

site_ip(opts) ==
    unwrap_or(env_var("LEPTOS_SITE_EXTERNAL_HOSTNAME"), ip_to_string(opts.site_addr.ip))

reload_port(opts) ==
    unwrap_or(env_var("LEPTOS_SITE_EXTERNAL_PORT"), to_string(opts.reload_port))

\* faulty variant: watch mode is inferred from the hostname override
watch_by_hostname == is_ok(env_var("LEPTOS_SITE_EXTERNAL_HOSTNAME"))

watch == is_ok(env_var("LEPTOS_WATCH"))

autoreload(opts) ==
    IF watch
    THEN <<WS, SCRIPT_OPEN, WS, HOT_RELOAD_JS, WS, WS_OPEN, "ws://">>
            \o site_ip(opts) \o <<":">> \o reload_port(opts)
            \o <<"/live_reload", WS_CLOSE, WS, ON_MESSAGE, WS, ON_CLOSE, WS,
                 SCRIPT_CLOSE, WS, SCRIPT_END, WS>>
    ELSE <<>>

----------------------------------------------------------------------------
(* html_parts and html_parts_separated                                     *)

DOCTYPE == "<!DOCTYPE html>"
HTML_OPEN == "<html"
TAG_END == ">"
HEAD_OPEN == "<head>"
CHARSET == "<meta charset=\"utf-8\"/>"
VIEWPORT == "<meta name=\"viewport\" content=\"width=device-width, initial-scale=1\"/>"
MODULEPRELOAD == "<link rel=\"modulepreload\" href=\""
LINK_END == "\">"
PRELOAD == "<link rel=\"preload\" href=\""
PRELOAD_END == "\" as=\"fetch\" type=\"application/wasm\" crossorigin=\"\">"
SCRIPT_IMPORT == "<script type=\"module\">import init, { hydrate } from '"
SCRIPT_INIT == "'; init('"
SCRIPT_THEN == "').then(hydrate);</script>"
TAIL == "</body></html>"

\* "/{pkg_path}/{name}{ext}"
asset_path(opts, name, ext) == <<"/">> \o opts.site_pkg_dir \o <<"/">> \o name \o <<ext>>

\* meta.and_then(|mc| mc.html.as_string()).unwrap_or_default()
html_metadata(m) == IF is_some(m) THEN unwrap_or_default(m[1].html) ELSE <<>>

\* meta.as_ref().map(|meta| meta.dehydrate()).unwrap_or_default()
dehydrated(m) == IF is_some(m) THEN m[1].head ELSE <<>>

\* meta.as_ref().and_then(|meta| meta.body.as_string()).unwrap_or_default()
body_attrs(m) == IF is_some(m) THEN unwrap_or_default(m[1].body) ELSE <<>>

\* html_parts: the suffix is decided by option_env!("LEPTOS_OUTPUT_NAME")
wasm_output_name_static(opts) ==
    opts.output_name \o (IF ~is_some(build_env) THEN <<"_bg">> ELSE <<>>)

\* faulty variant: the separated builder consults the compile-time variable too
wasm_output_name_unified(opts) ==
    opts.output_name \o (IF ~is_some(build_env) THEN <<"_bg">> ELSE <<>>)

\* html_parts_separated: the suffix is decided by std::env::var("LEPTOS_OUTPUT_NAME")
wasm_output_name_runtime(opts) ==
    opts.output_name \o (IF is_err(env_var("LEPTOS_OUTPUT_NAME")) THEN <<"_bg">> ELSE <<>>)

\* the part of both head templates from the modulepreload link to the end
head_loader(opts, wasm_output_name) ==
    <<MODULEPRELOAD>> \o asset_path(opts, opts.output_name, ".js") \o <<LINK_END, WS>>
    \o <<PRELOAD>> \o asset_path(opts, wasm_output_name, ".wasm") \o <<PRELOAD_END, WS>>
    \o <<SCRIPT_IMPORT>> \o asset_path(opts, opts.output_name, ".js")
    \o <<SCRIPT_INIT>> \o asset_path(opts, wasm_output_name, ".wasm") \o <<SCRIPT_THEN, WS>>
    \o autoreload(opts) \o <<WS>>

\* the part of both head templates up to the viewport meta tag
head_start(m) ==
    <<DOCTYPE, WS, HTML_OPEN>> \o html_metadata(m)
    \o <<TAG_END, WS, HEAD_OPEN, WS, CHARSET, WS, VIEWPORT, WS>>

html_parts(opts, m) ==
    [head |-> head_start(m) \o head_loader(opts, wasm_output_name_static(opts)),
     tail |-> <<TAIL>>]

\* faulty variant: the fragment is spliced after the loader block
html_parts_separated_late(opts, m) ==
    [head |-> head_start(m)
              \o head_loader(opts, wasm_output_name_runtime(opts))
              \o dehydrated(m) \o <<WS>>,
     tail |-> <<TAIL>>]

html_parts_separated(opts, m) ==
    [head |-> head_start(m) \o dehydrated(m) \o <<WS>>
              \o head_loader(opts, wasm_output_name_runtime(opts)),
     tail |-> <<TAIL>>]

----------------------------------------------------------------------------
(* Inputs                                                                  *)

MaxTags == 2       \* most tags a MetaContext collects
MaxFrags == 2      \* most fragments a stream yields
MaxMsgs == 2       \* most live-reload messages handled
MaxLinks == 2      \* most <link> elements of the page

HtmlAttr == <<" lang=\"en\"">>
BodyAttr == <<" class=\"dark\"">>
Tags == {"<title>t</title>", "<link rel=\"stylesheet\" href=\"/pkg/app.css\">"}

SeqsUpTo(S, n) == UNION {[1..k -> S] : k \in 0..n}

EmptyMeta == [html |-> NoneV, head |-> <<>>, body |-> NoneV]

MetaContexts ==
    [html : {NoneV, Some(HtmlAttr)},
     head : SeqsUpTo(Tags, MaxTags),
     body : {NoneV, Some(BodyAttr)}]

OptionalMetas == {NoneV} \cup {Some(mc) : mc \in MetaContexts}

AllOptions ==
    [site_addr : {[ip |-> <<127, 0, 0, 1>>, port |-> 3000],
                  [ip |-> <<0, 0, 0, 0>>, port |-> 8080]},
     reload_port : {3001},
     site_pkg_dir : {<<"pkg">>},
     output_name : {<<"app">>, <<"my", "_bg">>}]

ExternalHostname == <<"example.com">>
ExternalPort == <<"4", "4", "3">>

Environments ==
    [LEPTOS_WATCH : {NoneV, Some(<<"ON">>)},
     LEPTOS_SITE_EXTERNAL_HOSTNAME : {NoneV, Some(ExternalHostname)},
     LEPTOS_SITE_EXTERNAL_PORT : {NoneV, Some(ExternalPort)},
     LEPTOS_OUTPUT_NAME : {NoneV, Some(<<"app">>)}]

BuildEnvironments == {NoneV, Some(<<"app">>)}

----------------------------------------------------------------------------
(* States of the parts a specification leaves out                          *)

AsmIdle ==
    /\ pc = "idle"
    /\ pending = <<>> /\ ready = <<>> /\ closed = FALSE /\ arrived = <<>>
    /\ buf = <<>> /\ shell = NoneV /\ meta2 = NoneV
    /\ head_meta = <<>> /\ body_meta = <<>>
    /\ disposals = 0 /\ log = <<>> /\ doc = NoneV

ShellIdle == r_autoreload = NoneV /\ r_html_parts = NoneV /\ r_separated = NoneV

JsIdle == links = <<>> /\ inbox = 0 /\ msg = NoneV /\ effects = NoneV

----------------------------------------------------------------------------
(* SpecShell: the shell builders applied to every input                    *)

InitShell ==
    /\ options \in AllOptions
    /\ env \in Environments
    /\ build_env \in BuildEnvironments
    /\ meta \in OptionalMetas
    /\ ShellIdle /\ AsmIdle /\ JsIdle

CallAutoreload ==
    /\ r_autoreload' = Some(autoreload(options))
    /\ UNCHANGED <<in_vars, meta, r_html_parts, r_separated, asm_vars, js_vars>>

CallHtmlParts ==
    /\ r_html_parts' = Some(html_parts(options, meta))
    /\ UNCHANGED <<in_vars, meta, r_autoreload, r_separated, asm_vars, js_vars>>

CallHtmlPartsSeparated ==
    /\ r_separated' = Some(html_parts_separated(options, meta))
    /\ UNCHANGED <<in_vars, meta, r_autoreload, r_html_parts, asm_vars, js_vars>>

NextShell == CallAutoreload \/ CallHtmlParts \/ CallHtmlPartsSeparated

SpecShell == InitShell /\ [][NextShell]_vars

----------------------------------------------------------------------------
(* Properties of the shell builders (checked under SpecShell)              *)

Called == is_some(r_autoreload) /\ is_some(r_html_parts) /\ is_some(r_separated)

MentionsLiveReload(s) == "/live_reload" \in Range(s) \/ WS_OPEN \in Range(s)

\* C4: when LEPTOS_WATCH is absent, autoreload returns the empty string whatever
\* the hostname and port overrides are, and neither head contains a script that
\* refers to live_reload.
C4_NoScriptWithoutWatch ==
    env["LEPTOS_WATCH"] = NoneV =>
        /\ is_some(r_autoreload) => r_autoreload[1] = <<>>
        /\ is_some(r_html_parts) =>
              /\ ~MentionsLiveReload(r_html_parts[1].head)
              /\ SCRIPT_OPEN \notin Range(r_html_parts[1].head)
        /\ is_some(r_separated) =>
              /\ ~MentionsLiveReload(r_separated[1].head)
              /\ SCRIPT_OPEN \notin Range(r_separated[1].head)

C4_Witness ==
    /\ env["LEPTOS_WATCH"] = NoneV
    /\ env["LEPTOS_SITE_EXTERNAL_HOSTNAME"] # NoneV
    /\ env["LEPTOS_SITE_EXTERNAL_PORT"] # NoneV
    /\ Called

ExpectedHost ==
    IF env["LEPTOS_SITE_EXTERNAL_HOSTNAME"] # NoneV
    THEN env["LEPTOS_SITE_EXTERNAL_HOSTNAME"][1]
    ELSE ip_to_string(options.site_addr.ip)

ExpectedPort ==
    IF env["LEPTOS_SITE_EXTERNAL_PORT"] # NoneV
    THEN env["LEPTOS_SITE_EXTERNAL_PORT"][1]
    ELSE to_string(options.reload_port)

\* C5: in watch mode the WebSocket URL of the script is ws://{host}:{port}/live_reload,
\* host being the hostname override if set and else the ip of site_addr, port being
\* the port override if set and else reload_port, each resolved on its own; the
\* call returns a script whichever overrides are missing.
C5_WebSocketUrl ==
    (env["LEPTOS_WATCH"] # NoneV /\ is_some(r_autoreload)) =>
        /\ Between(r_autoreload[1], WS_OPEN, WS_CLOSE)
              = <<"ws://">> \o ExpectedHost \o <<":">> \o ExpectedPort \o <<"/live_reload">>
        /\ SCRIPT_OPEN \in Range(r_autoreload[1])
        /\ SCRIPT_END \in Range(r_autoreload[1])

C5_Witness ==
    /\ env["LEPTOS_WATCH"] # NoneV
    /\ env["LEPTOS_SITE_EXTERNAL_HOSTNAME"] = NoneV
    /\ env["LEPTOS_SITE_EXTERNAL_PORT"] # NoneV
    /\ is_some(r_autoreload)
    /\ Between(r_autoreload[1], WS_OPEN, WS_CLOSE)
          = <<"ws://", "1", "2", "7", ".", "0", ".", "0", ".", "1", ":", "4", "4", "3",
              "/live_reload">>

ExpectedJs == <<"/">> \o options.site_pkg_dir \o <<"/">> \o options.output_name \o <<".js">>

ExpectedWasm(override) ==
    <<"/">> \o options.site_pkg_dir \o <<"/">> \o options.output_name
    \o (IF override = NoneV THEN <<"_bg", ".wasm">> ELSE <<".wasm">>)

PathsOf(head) ==
    [modulepreload |-> Between(head, MODULEPRELOAD, LINK_END),
     preload |-> Between(head, PRELOAD, PRELOAD_END),
     import |-> Between(head, SCRIPT_IMPORT, SCRIPT_INIT),
     init |-> Between(head, SCRIPT_INIT, SCRIPT_THEN)]

\* C6: in both builders the WebAssembly path of the preload link and of init(...)
\* is /{pkg}/{output_name}_bg.wasm when the builder's override is unset and
\* /{pkg}/{output_name}.wasm when it is set; html_parts consults only the
\* compile-time LEPTOS_OUTPUT_NAME, html_parts_separated only the runtime one; the
\* loader path /{pkg}/{output_name}.js never carries the suffix.
C6_WasmPath ==
    /\ is_some(r_html_parts) =>
          PathsOf(r_html_parts[1].head) =
              [modulepreload |-> ExpectedJs, preload |-> ExpectedWasm(build_env),
               import |-> ExpectedJs, init |-> ExpectedWasm(build_env)]
    /\ is_some(r_separated) =>
          PathsOf(r_separated[1].head) =
              [modulepreload |-> ExpectedJs,
               preload |-> ExpectedWasm(env["LEPTOS_OUTPUT_NAME"]),
               import |-> ExpectedJs,
               init |-> ExpectedWasm(env["LEPTOS_OUTPUT_NAME"])]

C6_Witness ==
    /\ Called
    /\ build_env # NoneV
    /\ env["LEPTOS_OUTPUT_NAME"] = NoneV
    /\ options.output_name = <<"my", "_bg">>
    /\ PathsOf(r_html_parts[1].head).preload = <<"/", "pkg", "/", "my", "_bg", ".wasm">>
    /\ PathsOf(r_separated[1].head).init = <<"/", "pkg", "/", "my", "_bg", "_bg", ".wasm">>

ExpectedFragment == IF meta = NoneV THEN <<>> ELSE meta[1].head

\* C7: in the head of html_parts_separated the dehydrate() fragment comes right
\* after the viewport meta tag and before the modulepreload link, the wasm preload
\* link and the module script; without a MetaContext the head is the same with an
\* empty fragment there, and the call returns.
C7_FragmentBeforeLoader ==
    is_some(r_separated) =>
        LET h == r_separated[1].head
            v == IndexOf(h, VIEWPORT)
            e == v + 1 + Len(ExpectedFragment)
        IN  /\ v > 0
            /\ h[v + 1] = WS
            /\ OccursAt(h, ExpectedFragment, v + 2)
            /\ h[e + 1] = WS
            /\ IndexOf(h, MODULEPRELOAD) = e + 2
            /\ IndexOf(h, PRELOAD) > e + 2
            /\ IndexOf(h, SCRIPT_IMPORT) > IndexOf(h, PRELOAD)
            /\ \A i \in 1..Len(h) : h[i] \in Tags => (v < i /\ i <= e)
            /\ r_separated[1].tail = <<"</body></html>">>

C7_Witness ==
    /\ is_some(r_separated)
    /\ meta # NoneV
    /\ Len(meta[1].head) = 2
    /\ meta[1].head[1] # meta[1].head[2]

----------------------------------------------------------------------------
(* Spec: build_async_response, its stream and the rendering engine          *)

Fragments == {<<"<p>a</p>">>, <<"<p>", "b", "</p>">>}

DefaultOptions ==
    [site_addr |-> [ip |-> <<127, 0, 0, 1>>, port |-> 3000],
     reload_port |-> 3001,
     site_pkg_dir |-> <<"pkg">>,
     output_name |-> <<"app">>]

NoEnvironment ==
    [LEPTOS_WATCH |-> NoneV,
     LEPTOS_SITE_EXTERNAL_HOSTNAME |-> NoneV,
     LEPTOS_SITE_EXTERNAL_PORT |-> NoneV,
     LEPTOS_OUTPUT_NAME |-> NoneV]

WatchEnvironment ==
    [LEPTOS_WATCH |-> Some(<<"ON">>),
     LEPTOS_SITE_EXTERNAL_HOSTNAME |-> NoneV,
     LEPTOS_SITE_EXTERNAL_PORT |-> Some(ExternalPort),
     LEPTOS_OUTPUT_NAME |-> Some(<<"app">>)]

RECURSIVE Flatten(_)
Flatten(ss) == IF ss = <<>> THEN <<>> ELSE Head(ss) \o Flatten(Tail(ss))

HEAD_CLOSE_BODY_OPEN == "</head><body"

\* the MetaContext calls html_parts_separated makes on meta: Option<&MetaContext>
shell_reads(m) == IF is_some(m) THEN <<"html.as_string", "dehydrate">> ELSE <<>>

\* the MetaContext a handle obtained from use_context refers to
deref(handle) == IF is_some(handle) THEN meta ELSE NoneV

Init ==
    /\ options = DefaultOptions
    /\ env \in Environments
    /\ build_env = NoneV
    /\ meta \in {NoneV, Some(EmptyMeta)}
    /\ ShellIdle /\ JsIdle
    /\ pc = "start"
    /\ pending \in SeqsUpTo(Fragments, MaxFrags)
    /\ ready = <<>> /\ closed = FALSE /\ arrived = <<>>
    /\ buf = <<>> /\ shell = NoneV /\ meta2 = NoneV
    /\ head_meta = <<>> /\ body_meta = <<>>
    /\ disposals = 0 /\ log = <<>> /\ doc = NoneV

asm_rest == <<in_vars, shell_vars, js_vars>>

\* the assembler is not running: not yet polled, or suspended in stream.next().await
Suspended == pc \in {"start", "next"}

(* the stream's producer *)

Produce ==
    /\ pending # <<>>
    /\ ready' = Append(ready, Head(pending))
    /\ arrived' = Append(arrived, Head(pending))
    /\ pending' = Tail(pending)
    /\ UNCHANGED <<asm_rest, meta, pc, closed, buf, shell, meta2, head_meta,
                   body_meta, disposals, log, doc>>

Close ==
    /\ pending = <<>>
    /\ ~closed
    /\ closed' = TRUE
    /\ UNCHANGED <<asm_rest, meta, pc, pending, ready, arrived, buf, shell, meta2,
                   head_meta, body_meta, disposals, log, doc>>

(* component subtrees writing metadata while the assembler is suspended *)

asm_unchanged == <<asm_rest, asm_vars>>

MetaProvide ==
    /\ Suspended
    /\ meta = NoneV
    /\ meta' = Some(EmptyMeta)
    /\ UNCHANGED asm_unchanged

MetaSetHtml ==
    /\ Suspended
    /\ is_some(meta) /\ meta[1].html = NoneV
    /\ meta' = Some([meta[1] EXCEPT !.html = Some(HtmlAttr)])
    /\ UNCHANGED asm_unchanged

MetaAddTag ==
    /\ Suspended
    /\ is_some(meta) /\ Len(meta[1].head) < MaxTags
    /\ \E t \in Tags : meta' = Some([meta[1] EXCEPT !.head = Append(@, t)])
    /\ UNCHANGED asm_unchanged

MetaSetBody ==
    /\ Suspended
    /\ is_some(meta) /\ meta[1].body = NoneV
    /\ meta' = Some([meta[1] EXCEPT !.body = Some(BodyAttr)])
    /\ UNCHANGED asm_unchanged

(* build_async_response *)

\* faulty variant: the shell is built before the stream is drained
Start_eager ==
    /\ pc = "start"
    /\ buf' = <<>>
    /\ shell' = Some(html_parts_separated(options, meta))
    /\ log' = log \o <<"use_context">> \o shell_reads(meta)
    /\ pc' = "next"
    /\ UNCHANGED <<asm_rest, meta, pending, ready, closed, arrived, meta2,
                   head_meta, body_meta, disposals, doc>>

Start ==
    /\ pc = "start"
    /\ buf' = <<>>
    /\ pc' = "next"
    /\ UNCHANGED <<asm_rest, meta, pending, ready, closed, arrived, shell, meta2,
                   head_meta, body_meta, disposals, log, doc>>

\* faulty variant: the chunk replaces the buffer
StreamNextSome_overwrite ==
    /\ pc = "next"
    /\ ready # <<>>
    /\ buf' = Head(ready)
    /\ ready' = Tail(ready)
    /\ UNCHANGED <<asm_rest, meta, pc, pending, closed, arrived, shell, meta2,
                   head_meta, body_meta, disposals, log, doc>>

StreamNextSome ==
    /\ pc = "next"
    /\ ready # <<>>
    /\ buf' = buf \o Head(ready)
    /\ ready' = Tail(ready)
    /\ UNCHANGED <<asm_rest, meta, pc, pending, closed, arrived, shell, meta2,
                   head_meta, body_meta, disposals, log, doc>>

StreamNextNone ==
    /\ pc = "next"
    /\ ready = <<>>
    /\ closed
    /\ log' = Append(log, "eos")
    /\ pc' = "shell"
    /\ UNCHANGED <<asm_rest, meta, pending, ready, closed, arrived, buf, shell,
                   meta2, head_meta, body_meta, disposals, doc>>

BuildShell ==
    /\ pc = "shell"
    /\ shell' = Some(html_parts_separated(options, meta))
    /\ log' = log \o <<"use_context">> \o shell_reads(meta)
    /\ pc' = "meta"
    /\ UNCHANGED <<asm_rest, meta, pending, ready, closed, arrived, buf, meta2,
                   head_meta, body_meta, disposals, doc>>

LookupMeta ==
    /\ pc = "meta"
    /\ meta2' = IF is_some(meta) THEN Some("MetaContext") ELSE NoneV
    /\ log' = Append(log, "use_context")
    /\ pc' = "head_meta"
    /\ UNCHANGED <<asm_rest, meta, pending, ready, closed, arrived, buf, shell,
                   head_meta, body_meta, disposals, doc>>

\* faulty variant: the runtime is disposed before the body attributes are read
ReadHeadMeta_disposing ==
    /\ pc = "head_meta"
    /\ head_meta' = dehydrated(deref(meta2))
    /\ disposals' = disposals + 1
    /\ log' = log \o (IF is_some(meta2) THEN <<"dehydrate">> ELSE <<>>) \o <<"dispose">>
    /\ pc' = "body_meta"
    /\ UNCHANGED <<asm_rest, meta, pending, ready, closed, arrived, buf, shell,
                   meta2, body_meta, doc>>

\* faulty variant: the second read is dropped
ReadHeadMeta_skipped ==
    /\ pc = "head_meta"
    /\ head_meta' = <<>>
    /\ log' = log
    /\ pc' = "body_meta"
    /\ UNCHANGED <<asm_rest, meta, pending, ready, closed, arrived, buf, shell,
                   meta2, body_meta, disposals, doc>>

ReadHeadMeta ==
    /\ pc = "head_meta"
    /\ head_meta' = dehydrated(deref(meta2))
    /\ log' = log \o (IF is_some(meta2) THEN <<"dehydrate">> ELSE <<>>)
    /\ pc' = "body_meta"
    /\ UNCHANGED <<asm_rest, meta, pending, ready, closed, arrived, buf, shell,
                   meta2, body_meta, disposals, doc>>

ReadBodyMeta ==
    /\ pc = "body_meta"
    /\ body_meta' = body_attrs(deref(meta2))
    /\ log' = log \o (IF is_some(meta2) THEN <<"body.as_string">> ELSE <<>>)
    /\ pc' = "dispose"
    /\ UNCHANGED <<asm_rest, meta, pending, ready, closed, arrived, buf, shell,
                   meta2, head_meta, disposals, doc>>

Dispose ==
    /\ pc = "dispose"
    /\ disposals' = disposals + 1
    /\ log' = Append(log, "dispose")
    /\ pc' = "format"
    /\ UNCHANGED <<asm_rest, meta, pending, ready, closed, arrived, buf, shell,
                   meta2, head_meta, body_meta, doc>>

\* faulty variant: the two metadata strings change places
Format_swapped ==
    /\ pc = "format"
    /\ doc' = Some(shell[1].head \o body_meta \o <<HEAD_CLOSE_BODY_OPEN>> \o head_meta
                   \o <<TAG_END>> \o buf \o shell[1].tail)
    /\ pc' = "done"
    /\ UNCHANGED <<asm_rest, meta, pending, ready, closed, arrived, buf, shell,
                   meta2, head_meta, body_meta, disposals, log>>

Format ==
    /\ pc = "format"
    /\ doc' = Some(shell[1].head \o head_meta \o <<HEAD_CLOSE_BODY_OPEN>> \o body_meta
                   \o <<TAG_END>> \o buf \o shell[1].tail)
    /\ pc' = "done"
    /\ UNCHANGED <<asm_rest, meta, pending, ready, closed, arrived, buf, shell,
                   meta2, head_meta, body_meta, disposals, log>>

Next ==
    \/ Produce \/ Close
    \/ MetaProvide \/ MetaSetHtml \/ MetaAddTag \/ MetaSetBody
    \/ Start \/ StreamNextSome \/ StreamNextNone
    \/ BuildShell \/ LookupMeta \/ ReadHeadMeta \/ ReadBodyMeta
    \/ Dispose \/ Format

Spec == Init /\ [][Next]_vars

----------------------------------------------------------------------------
(* Properties of build_async_response (checked under Spec)                 *)

MetaReads == {"use_context", "html.as_string", "dehydrate", "body.as_string"}

Positions(op) == {i \in 1..Len(log) : log[i] = op}

Drained == closed /\ pending = <<>> /\ ready = <<>>

ExpectedBodyAttrs ==
    IF meta = NoneV THEN <<>>
    ELSE IF meta[1].body = NoneV THEN <<>> ELSE meta[1].body[1]

ExpectedHtmlAttrs ==
    IF meta = NoneV THEN <<>>
    ELSE IF meta[1].html = NoneV THEN <<>> ELSE meta[1].html[1]

\* the dehydrate() fragment a separated head carries between viewport and modulepreload
FragmentOf(head) == SubSeq(head, IndexOf(head, VIEWPORT) + 2, IndexOf(head, MODULEPRELOAD) - 2)

\* what the returned document holds between "<body...>" and the tail
BodySegment(d) ==
    LET i == IndexOf(d, "</head><body")
        j == IndexFrom(d, ">", i + 1)
    IN  SubSeq(d, j + 1, Len(d) - 1)

\* C1: the runtime is disposed exactly once in a run, after the stream has ended and
\* after both metadata reads (the one inside html_parts_separated and the second
\* one), and nothing is read from the MetaContext after the disposal.
C1_DisposedOnceAfterReads ==
    /\ disposals = Cardinality(Positions("dispose"))
    /\ disposals <= 1
    /\ (pc \in {"format", "done"}) <=> (disposals = 1)
    /\ \A d \in Positions("dispose") :
          /\ \E e \in Positions("eos") : e < d
          /\ Cardinality({i \in Positions("use_context") : i < d}) = 2
          /\ is_some(meta) =>
                /\ Cardinality({i \in Positions("dehydrate") : i < d}) = 2
                /\ Cardinality({i \in Positions("body.as_string") : i < d}) = 1
          /\ \A i \in (d + 1)..Len(log) : log[i] \notin MetaReads

C1_Witness ==
    /\ pc = "done"
    /\ disposals = 1
    /\ is_some(meta)
    /\ arrived # <<>>
    /\ log = <<"eos", "use_context", "html.as_string", "dehydrate", "use_context",
               "dehydrate", "body.as_string", "dispose">>

\* C2: whatever the interleaving of arrivals and polls, the body segment of the
\* returned document is the concatenation of all fragments in arrival order:
\* nothing dropped, duplicated, reordered or truncated.
C2_BodyIsConcatenation ==
    /\ pc # "start" => buf \o Flatten(ready) = Flatten(arrived)
    /\ pc = "done" =>
          /\ pending = <<>> /\ ready = <<>>
          /\ BodySegment(doc[1]) = Flatten(arrived)
          /\ doc[1][Len(doc[1])] = "</body></html>"

C2_Witness ==
    /\ pc = "done"
    /\ Len(arrived) = 2
    /\ arrived[1] # arrived[2]
    /\ BodySegment(doc[1]) = <<"<p>a</p>", "<p>", "b", "</p>">>

\* C3: the returned string is head shell, second-read head metadata, "</head><body",
\* body attributes, ">", the whole buffer, "</body></html>", in this order; without
\* a MetaContext the head metadata and the body attributes are empty.
C3_DocumentLayout ==
    pc = "done" =>
        /\ is_some(doc)
        /\ doc[1] = shell[1].head \o ExpectedFragment \o <<"</head><body">>
                    \o ExpectedBodyAttrs \o <<">">> \o Flatten(arrived)
                    \o <<"</body></html>">>
        /\ shell[1].tail = <<"</body></html>">>
        /\ head_meta = ExpectedFragment
        /\ body_meta = ExpectedBodyAttrs
        /\ meta = NoneV => (head_meta = <<>> /\ body_meta = <<>>)

C3_Witness ==
    /\ pc = "done"
    /\ head_meta = <<"<title>t</title>">>
    /\ body_meta = BodyAttr
    /\ buf = <<"<p>a</p>">>
    /\ env = NoEnvironment

\* C8: no read of the MetaContext (lookup, html attributes, dehydrate(), body
\* attributes) happens before the stream has returned its end; every read sees the
\* metadata as it stands after the drain, though subtrees write while it streams.
C8_ReadsAfterDrain ==
    /\ \A i \in 1..Len(log) :
          log[i] \in MetaReads => \E e \in Positions("eos") : e < i
    /\ Positions("eos") # {} => Drained
    /\ is_some(shell) =>
          /\ FragmentOf(shell[1].head) = ExpectedFragment
          /\ Between(shell[1].head, HTML_OPEN, TAG_END) = ExpectedHtmlAttrs
    /\ pc \in {"body_meta", "dispose", "format", "done"} => head_meta = ExpectedFragment
    /\ pc \in {"dispose", "format", "done"} => body_meta = ExpectedBodyAttrs

C8_Witness ==
    /\ pc = "done"
    /\ Len(arrived) = 2
    /\ is_some(meta)
    /\ Len(meta[1].head) = 2
    /\ meta[1].html # NoneV
    /\ meta[1].body # NoneV
    /\ Cardinality(Positions("dehydrate")) = 2

AnyMetaWrite == MetaProvide \/ MetaSetHtml \/ MetaAddTag \/ MetaSetBody

\* C10: the two dehydrate() reads run with no suspension point between them and
\* see the same metadata; when it dehydrates to a non-empty D the document holds D
\* twice: after the viewport tag before the modulepreload link, and right before
\* "</head>".
C10_FragmentTwice ==
    /\ pc \in {"meta", "head_meta", "body_meta"} => ~ENABLED AnyMetaWrite
    /\ (pc = "done" /\ ExpectedFragment # <<>>) =>
          LET d == doc[1]
              D == ExpectedFragment
              v == IndexOf(d, VIEWPORT)
              c == IndexOf(d, "</head><body")
          IN  /\ v > 0 /\ c > 0
              /\ OccursAt(d, D, v + 2)
              /\ v + 1 + Len(D) < IndexOf(d, MODULEPRELOAD)
              /\ OccursAt(d, D, c - Len(D))
              /\ IndexOf(d, MODULEPRELOAD) < c - Len(D)
              /\ Cardinality({i \in 1..Len(d) : d[i] \in Tags}) = 2 * Len(D)
              /\ FragmentOf(shell[1].head) = head_meta

C10_Witness ==
    /\ pc = "done"
    /\ is_some(meta)
    /\ meta[1].head = <<"<title>t</title>",
                        "<link rel=\"stylesheet\" href=\"/pkg/app.css\">">>
    /\ Cardinality({i \in 1..Len(doc[1]) : doc[1][i] \in Tags}) = 4

----------------------------------------------------------------------------
(* SpecReload: ws.onmessage of the script autoreload emits, in the browser  *)

StyleHrefs == {<<"/", "pkg/app.css">>, <<"/", "pkg/other.css">>}

\* a <link> element has an href or none (getAttribute('href') is then null)
LinkStates == {NoneV} \cup {Some(h) : h \in StyleHrefs}

\* JSON.parse(ev.data): each field is absent or present with a value
Messages ==
    [all : {NoneV, Some("false"), Some("true")},
     css : {NoneV, Some(""), Some("pkg/app.css"), Some("pkg/gone.css")},
     view : {NoneV, Some("view-patches")}]

\* JavaScript truthiness of msg.field
Truthy(field) == is_some(field) /\ field[1] \notin {"false", ""}

\* String.prototype.includes
includes(href, text) == text \in Range(href)

\* '/' + msg.css + '?version=' + new Date().getMilliseconds()
newHref(css, ms) == <<"/", css, "?version=">> \o to_string(ms)

\* the css branch: forEach over the links in document order; a link without href
\* makes includes throw and ends the handler there
css_branch(m, ls, ms) ==
    LET nulls == {i \in 1..Len(ls) : ls[i] = NoneV}
        stop == IF nulls = {} THEN Len(ls) + 1
                ELSE CHOOSE i \in nulls : \A j \in nulls : i <= j
        hit == {i \in 1..(stop - 1) : includes(ls[i][1], m.css[1])}
    IN  [links |-> [i \in 1..Len(ls) |->
                        IF i \in hit THEN Some(newHref(m.css[1], ms)) ELSE ls[i]],
         rewritten |-> hit,
         threw |-> nulls # {},
         warned |-> nulls = {} /\ hit = {}]

no_css(ls) == [links |-> ls, rewritten |-> {}, threw |-> FALSE, warned |-> FALSE]

\* faulty variant: the three tests chained as else-if
on_message_exclusive(m, ls, ms) ==
    LET c == IF ~Truthy(m.all) /\ Truthy(m.css) THEN css_branch(m, ls, ms) ELSE no_css(ls)
    IN  [links |-> c.links,
         effects |-> [reload |-> Truthy(m.all),
                      css_ran |-> ~Truthy(m.all) /\ Truthy(m.css),
                      rewritten |-> c.rewritten,
                      warned |-> c.warned,
                      threw |-> c.threw,
                      patched |-> IF ~Truthy(m.all) /\ ~Truthy(m.css) /\ Truthy(m.view)
                                  THEN m.view ELSE NoneV]]

\* ws.onmessage: if (msg.all) ...; if (msg.css) {...}; if (msg.view) {...}
on_message(m, ls, ms) ==
    LET c == IF Truthy(m.css) THEN css_branch(m, ls, ms) ELSE no_css(ls)
    IN  [links |-> c.links,
         effects |-> [reload |-> Truthy(m.all),
                      css_ran |-> Truthy(m.css),
                      rewritten |-> c.rewritten,
                      warned |-> c.warned,
                      threw |-> c.threw,
                      patched |-> IF ~c.threw /\ Truthy(m.view) THEN m.view ELSE NoneV]]

InitReload ==
    /\ options = DefaultOptions
    /\ env = WatchEnvironment
    /\ build_env = NoneV
    /\ meta = NoneV
    /\ ShellIdle /\ AsmIdle
    /\ links \in SeqsUpTo(LinkStates, MaxLinks)
    /\ inbox = 0 /\ msg = NoneV /\ effects = NoneV

OnMessage ==
    /\ inbox < MaxMsgs
    /\ \E m \in Messages, ms \in {0, 999} :
          LET r == on_message(m, links, ms)
          IN  /\ links' = r.links
              /\ effects' = Some(r.effects)
              /\ msg' = Some(m)
    /\ inbox' = inbox + 1
    /\ UNCHANGED <<in_vars, meta, shell_vars, asm_vars>>

NextReload == OnMessage

SpecReload == InitReload /\ [][NextReload]_vars

----------------------------------------------------------------------------
(* Properties of the message handler (checked under SpecReload)            *)

\* C9 as claimed: the three fields are exclusive branches in priority order: reload
\* when all is set; otherwise the css rewrite when css is present; otherwise patch
\* when view is present.
C9_ExclusiveBranches ==
    is_some(effects) =>
        LET m == msg[1]
            e == effects[1]
        IN  /\ Truthy(m.all) => (e.reload /\ ~e.css_ran /\ e.patched = NoneV)
            /\ (~Truthy(m.all) /\ Truthy(m.css)) => (e.css_ran /\ e.patched = NoneV)
            /\ (~Truthy(m.all) /\ ~Truthy(m.css) /\ Truthy(m.view)) => e.patched = m.view

\* C9 as amended: the three fields are tested one after another, each on its own:
\* reload exactly when all is truthy; the css rewrite (with its warning when no link
\* matches) exactly when css is truthy, also when all is set; patch exactly when
\* view is truthy, also when all or css is set, unless the css step threw on a link
\* without href.
C9_IndependentBranches ==
    is_some(effects) =>
        LET m == msg[1]
            e == effects[1]
        IN  /\ e.reload <=> Truthy(m.all)
            /\ e.css_ran <=> Truthy(m.css)
            /\ e.threw <=> (Truthy(m.css) /\ \E i \in 1..Len(links) : links[i] = NoneV)
            /\ e.warned <=> (Truthy(m.css) /\ ~e.threw /\ e.rewritten = {})
            /\ e.rewritten # {} => Truthy(m.css)
            /\ \A i \in e.rewritten :
                  /\ is_some(links[i])
                  /\ SubSeq(links[i][1], 1, 3) = <<"/", m.css[1], "?version=">>
            /\ e.patched = (IF Truthy(m.view) /\ ~e.threw THEN m.view ELSE NoneV)

C9_Witness ==
    /\ is_some(effects)
    /\ msg[1] = [all |-> Some("true"), css |-> Some("pkg/app.css"),
                 view |-> Some("view-patches")]
    /\ effects[1].reload
    /\ effects[1].rewritten = {1}
    /\ effects[1].patched = Some("view-patches")
    /\ Len(links) = 2

====
